---- MODULE Spec2Model ----
(***************************************************************************)
(* Market-structure detection engine of indicators.py: session clock,      *)
(* opening-range breakout report, swing-high detector, fair-value-gap      *)
(* detector, liquidity-zone report and its multi-timeframe aggregation.    *)
(*                                                                         *)
(* Every function of the source is a pure computation over its arguments   *)
(* (plus "now" and one database / market-data read), so each is an         *)
(* operator, and one action per function applies it to inputs chosen in    *)
(* the initial state.  Prices are small integers, instants are seconds.    *)
(* Python's None is the empty tuple, a present value v is <<v>>.           *)
(***************************************************************************)
EXTENDS Integers, Sequences, FiniteSets

VARIABLES
    pc,          \* "init" before the call, then the name of the function that ran
    now_utc,     \* the instant datetime.utcnow() returns (seconds)
    db_rows,     \* rows of forex_candles_<timeframe> the ORB query returns
    candles,     \* the candle window handed to a detector
    fetched,     \* what fetch_oanda_candles returns for 4h, 1h, 15m
    window,      \* argument of find_last_swing_high_low
    lookback,    \* argument of detect_all_fvgs / find_sr_liquidity_zones
    status,      \* return value of get_active_or_recent_session
    messages,    \* return value of run_session_orb
    swing,       \* return value of find_last_swing_high_low
    fvgs,        \* return value of detect_all_fvgs
    examined,    \* history: the center indices the detect_all_fvgs loop visited
    report,      \* return value of find_sr_liquidity_zones
    raised,      \* the exception that left the called function, or None
    results      \* return value of get_all_tf_sr_liquidity (insertion-ordered)

vars == <<pc, now_utc, db_rows, candles, fetched, window, lookback, status,
          messages, swing, fvgs, examined, report, raised, results>>

----------------------------------------------------------------------------
(* Bounds of the model *)

MaxLen == 4

MaxPrice == 2

MaxWindow == 2

MaxLookback == 3

MaxFetchLen == 1

MaxRows == 3

MaxOrbPrice == 3

----------------------------------------------------------------------------
(* Python values *)

None == << >>

Some(v) == <<v>>

Min(a, b) == IF a < b THEN a ELSE b

Max(a, b) == IF a > b THEN a ELSE b

\* seq[i] of Python: 0-based, a negative index counts from the end
At(seq, i) == IF i < 0 THEN seq[Len(seq) + i + 1] ELSE seq[i + 1]

\* range(start, stop, -1): start, start-1, ..., stop+1 (stop is excluded)
RangeDown(start, stop) == [k \in 1..Max(0, start - stop) |-> start - (k - 1)]

\* seq[-k:] of Python: the last k elements; -0 is 0, so seq[-0:] is all of seq
LastSlice(seq, k) ==
    IF k = 0 \/ k >= Len(seq) THEN seq
    ELSE SubSeq(seq, Len(seq) - k + 1, Len(seq))

RECURSIVE MaxOf(_)
MaxOf(s) == IF Len(s) = 1 THEN s[1] ELSE Max(s[1], MaxOf(Tail(s)))

RECURSIVE MinOf(_)
MinOf(s) == IF Len(s) = 1 THEN s[1] ELSE Min(s[1], MinOf(Tail(s)))

RECURSIVE SelectRows(_, _)
SelectRows(s, keep) ==
    IF s = << >> THEN << >>
    ELSE (IF keep[1] THEN <<s[1]>> ELSE << >>) \o SelectRows(Tail(s), Tail(keep))

----------------------------------------------------------------------------
(* Time: an instant is a number of seconds; the queried day is day 1, so    *)
(* that the previous calendar day exists.                                   *)

SecondsPerHour == 60 * 60

SecondsPerDay == 24 * SecondsPerHour

Midnight == SecondsPerDay

DateOf(t) == t \div SecondsPerDay

TimeOfDay(t) == t % SecondsPerDay

TimeValue(tm) == tm.hour * SecondsPerHour + tm.minute * 60

\* dt.replace(hour=h, minute=m, second=0, microsecond=0)
ReplaceTime(t, tm) == DateOf(t) * SecondsPerDay + TimeValue(tm)

Sessions ==
    << [name |-> "Tokyo", start |-> [hour |-> 0, minute |-> 0],
        end |-> [hour |-> 8, minute |-> 0], major |-> TRUE],
       [name |-> "London", start |-> [hour |-> 7, minute |-> 0],
        end |-> [hour |-> 15, minute |-> 0], major |-> TRUE],
       [name |-> "New York", start |-> [hour |-> 12, minute |-> 0],
        end |-> [hour |-> 21, minute |-> 0], major |-> TRUE] >>

FormatDuration(seconds) ==
    IF seconds < 60 THEN <<seconds, "s">>
    ELSE IF seconds \div 60 < 60 THEN <<seconds \div 60, "m">>
    ELSE <<(seconds \div 60) \div 60, "h", (seconds \div 60) % 60, "m">>

\* start_dt of one session for the instant now (lines 116-118)
StartDt(now, sess) ==
    IF TimeOfDay(now) < TimeValue(sess.start)
    THEN ReplaceTime(now, sess.start) - SecondsPerDay
    ELSE ReplaceTime(now, sess.start)

\* end_dt (line 120)
EndDt(now, sess) ==
    StartDt(now, sess) + ((sess.end.hour - sess.start.hour) % 24) * SecondsPerHour

\* the test of line 121
InSession(now, sess) == StartDt(now, sess) <= now /\ now < EndDt(now, sess)

NoSession ==
    [session |-> None, session_open_dt |-> None,
     session_msg |-> <<"No major session active">>,
     is_major |-> FALSE, mins_since_open |-> None]

\* the tuple returned on a match (lines 122-125)
Matched(now, sess) ==
    [session |-> Some(sess.name),
     session_open_dt |-> Some(StartDt(now, sess)),
     session_msg |-> <<sess.name, "session opened",
                       FormatDuration(now - StartDt(now, sess)), "ago">>,
     is_major |-> sess.major,
     mins_since_open |-> Some((now - StartDt(now, sess)) \div 60)]

\* faulty variant: the loop keeps going and the last matching session wins
SessionScanLastWins(now, k) ==
    LET M == {j \in k..Len(Sessions) : InSession(now, Sessions[j])} IN
    IF M = {} THEN NoSession
    ELSE Matched(now, Sessions[CHOOSE j \in M : \A i \in M : i <= j])

\* the loop of lines 115-127 from session k on: the first match returns
RECURSIVE SessionScan(_, _)
SessionScan(now, k) ==
    IF k > Len(Sessions) THEN NoSession
    ELSE IF InSession(now, Sessions[k]) THEN Matched(now, Sessions[k])
         ELSE SessionScan(now, k + 1)

GetActiveOrRecentSession(now) == SessionScan(now, 1)

----------------------------------------------------------------------------
(* Opening-range breakout *)

Timeframe == "15m"

OrbMinutes == 15

CautionMinutes == 30

\* a datetime as the database driver returns it: wall-clock fields, no tzinfo
Naive(t) == [wall |-> t, tzinfo |-> None]

\* str_to_utc_dt on a datetime: one without tzinfo has its wall-clock fields
\* read as UTC, which gives the instant (an aware one is returned as it is)
StrToUtcDt(ts) ==
    IF ts.tzinfo = None THEN ts.wall ELSE ts.wall - ts.tzinfo[1]

SessionLine(st) ==
    <<"session", IF st.session = None THEN "N/A" ELSE st.session[1], st.session_msg>>

\* faulty variant: the limit itself still counts as the opening half hour
CautionNeededInclusive(st) ==
    st.mins_since_open # None /\ st.mins_since_open[1] <= CautionMinutes

\* line 141
CautionNeeded(st) ==
    st.mins_since_open # None /\ st.mins_since_open[1] < CautionMinutes

CautionLines(st) ==
    IF CautionNeeded(st)
    THEN << <<"caution", st.mins_since_open[1], st.session[1]>> >>
    ELSE << >>

InOrbWindow(c, orb_end_dt) == StrToUtcDt(c.timestamp) < orb_end_dt

AfterOrbWindow(c, orb_end_dt) == StrToUtcDt(c.timestamp) >= orb_end_dt

\* faulty variant: the downward test is an independent if
BreakoutLinesBoth(first, orb_high, orb_low) ==
    (IF first.high > orb_high THEN << <<"breakout_up", first.timestamp>> >> ELSE << >>)
    \o (IF first.low < orb_low THEN << <<"breakout_down", first.timestamp>> >> ELSE << >>)

\* lines 169-172
BreakoutLines(first, orb_high, orb_low) ==
    IF first.high > orb_high THEN << <<"breakout_up", first.timestamp>> >>
    ELSE IF first.low < orb_low THEN << <<"breakout_down", first.timestamp>> >>
    ELSE << >>

\* lines 144-174, once a major session is known to be open
OrbAnalysis(st, rows) ==
    LET orb_end_dt == st.session_open_dt[1] + OrbMinutes * 60
        orb_candles == SelectRows(rows, [k \in 1..Len(rows) |-> InOrbWindow(rows[k], orb_end_dt)])
        after_orb == SelectRows(rows, [k \in 1..Len(rows) |-> AfterOrbWindow(rows[k], orb_end_dt)])
        orb_high == MaxOf([k \in 1..Len(orb_candles) |-> orb_candles[k].high])
        orb_low == MinOf([k \in 1..Len(orb_candles) |-> orb_candles[k].low])
    IN  IF rows = << >> THEN << <<"no_candles", Timeframe>> >>
        ELSE IF orb_candles = << >> THEN << <<"no_orb_candles", OrbMinutes>> >>
        ELSE << <<"orb", orb_high, orb_low>> >>
             \o (IF after_orb # << >>
                 THEN BreakoutLines(after_orb[1], orb_high, orb_low)
                 ELSE << >>)

RunSessionOrb(now, rows) ==
    LET st == GetActiveOrRecentSession(now) IN
    IF st.session_open_dt = None \/ ~st.is_major
    THEN <<SessionLine(st)>>
    ELSE <<SessionLine(st)>> \o CautionLines(st) \o OrbAnalysis(st, rows)

----------------------------------------------------------------------------
(* Swing-high detector.  A candle [ts, o, h, l, c, v] is the record of the  *)
(* fields the detectors read: c[2] is high, c[3] is low, c[4] is close.     *)

Highs(cs) == [k \in 1..Len(cs) |-> cs[k].high]

Lows(cs) == [k \in 1..Len(cs) |-> cs[k].low]

\* faulty variant: a tie with a neighbour still qualifies
IsHighOrTie(highs, i, w) ==
    \A j \in (i - w)..(i + w) : j # i => At(highs, i) >= At(highs, j)

\* line 199: all(highs[i] > highs[j] for j in range(i-window, i+window+1) if j != i)
IsHigh(highs, i, w) ==
    \A j \in (i - w)..(i + w) : j # i => At(highs, i) > At(highs, j)

\* the candidate indices of line 198, most recent first
SwingRange(n, w) == RangeDown(n - w - 1, w - 1)

RECURSIVE SwingScan(_, _, _, _)
SwingScan(highs, w, rng, k) ==
    IF k > Len(rng) THEN <<None, None>>
    ELSE IF IsHigh(highs, rng[k], w)
         THEN <<Some(At(highs, rng[k])), Some(rng[k])>>
         ELSE SwingScan(highs, w, rng, k + 1)

FindLastSwingHighLow(cs, w) ==
    SwingScan(Highs(cs), w, SwingRange(Len(cs), w), 1)

----------------------------------------------------------------------------
(* Fair-value-gap detector.  Each gap carries, besides the three keys of    *)
(* the source's dict, the center index that produced it (history field).    *)

\* faulty variant: the stop of the range is included
FvgRangeInclusive(n, lb) == RangeDown(n - 2, Max(0, n - lb - 1) - 1)

\* the center indices of line 207, in scan order
FvgRange(n, lb) == RangeDown(n - 2, Max(0, n - lb - 1))

\* line 211
IsBullish(prev, next) == prev.high < next.low

\* faulty variant: the comparison is turned around
IsBearishFlipped(prev, next) == prev.low < next.high

\* line 214
IsBearish(prev, next) == prev.low > next.high

\* faulty variant: top and bottom are swapped
BullishGapSwapped(prev, next, i) ==
    [type |-> "bullish", top |-> prev.high, bottom |-> next.low, center |-> i]

\* line 212
BullishGap(prev, next, i) ==
    [type |-> "bullish", top |-> next.low, bottom |-> prev.high, center |-> i]

\* line 215
BearishGap(prev, next, i) ==
    [type |-> "bearish", top |-> prev.low, bottom |-> next.high, center |-> i]

\* one iteration of the loop body, lines 208-215
FvgsAt(cs, i) ==
    LET prev == At(cs, i - 1)
        next == At(cs, i + 1)
    IN  (IF IsBullish(prev, next) THEN <<BullishGap(prev, next, i)>> ELSE << >>)
        \o (IF IsBearish(prev, next) THEN <<BearishGap(prev, next, i)>> ELSE << >>)

RECURSIVE FvgScan(_, _, _)
FvgScan(cs, rng, k) ==
    IF k > Len(rng) THEN << >>
    ELSE FvgsAt(cs, rng[k]) \o FvgScan(cs, rng, k + 1)

DetectAllFvgs(cs, lb) == FvgScan(cs, FvgRange(Len(cs), lb), 1)

----------------------------------------------------------------------------
(* Liquidity-zone report and its multi-timeframe aggregation.  A function   *)
(* returns [value |-> v, raised |-> None] or leaves with an exception.      *)

DefaultLookback == 50

DefaultSwingWindow == 3

Return(v) == [value |-> Some(v), raised |-> None]

Raise(e) == [value |-> None, raised |-> Some(e)]

FindSrLiquidityZones(cs, lb, sw) ==
    LET recent_candles == LastSlice(cs, lb)
        sh == FindLastSwingHighLow(recent_candles, sw)
        gaps == DetectAllFvgs(recent_candles, lb)
    IN  IF recent_candles = << >>
        THEN Raise("ValueError")      \* max() of an empty sequence, line 224
        ELSE Return([local_high |-> MaxOf(Highs(recent_candles)),
                     local_low |-> MinOf(Lows(recent_candles)),
                     swing_high |-> sh[1],
                     last_close |-> At(recent_candles, -1).close,
                     fvgs |-> gaps])

Timeframes == <<"4h", "1h", "15m">>

\* faulty variant: the report is computed without the test of line 237
RECURSIVE AllTfScanUnguarded(_, _, _)
AllTfScanUnguarded(got, res, k) ==
    IF k > Len(Timeframes) THEN Return(res)
    ELSE LET r == FindSrLiquidityZones(got[k], DefaultLookback, DefaultSwingWindow)
         IN  IF r.raised # None THEN Raise(r.raised[1])
             ELSE AllTfScanUnguarded(got, Append(res, <<Timeframes[k], r.value[1]>>), k + 1)

\* the loop of lines 234-238 from timeframe k on; res is the dict so far,
\* kept as the sequence of its (key, value) pairs in insertion order
RECURSIVE AllTfScan(_, _, _)
AllTfScan(got, res, k) ==
    IF k > Len(Timeframes) THEN Return(res)
    ELSE IF got[k] # << >>
         THEN LET r == FindSrLiquidityZones(got[k], DefaultLookback, DefaultSwingWindow)
              IN  IF r.raised # None THEN Raise(r.raised[1])
                  ELSE AllTfScan(got, Append(res, <<Timeframes[k], r.value[1]>>), k + 1)
         ELSE AllTfScan(got, res, k + 1)

GetAllTfSrLiquidity(got) == AllTfScan(got, << >>, 1)

----------------------------------------------------------------------------
(* Inputs *)

SeqsUpTo(S, n) == UNION {[1..k -> S] : k \in 0..n}

\* a candle's low never exceeds its high; the close (read only for
\* last_close) is taken at the low, the fields never read are left out
CandleSet ==
    {c \in [high : 1..MaxPrice, low : 1..MaxPrice, close : 1..MaxPrice] :
        c.low <= c.high /\ c.close = c.low}

CandleSeqs == SeqsUpTo(CandleSet, MaxLen)

FetchSeqs == SeqsUpTo(CandleSet, MaxFetchLen)

\* every second of the queried day
DayInstants == {Midnight + s : s \in 0..(SecondsPerDay - 1)}

\* the hours at which a session opens or the reported session changes:
\* the hour's start, and either side of the caution limit
OrbHours == {0, 7, 12, 15, 21}

OrbInstants ==
    {Midnight + h * SecondsPerHour + d :
        h \in OrbHours, d \in {0, CautionMinutes * 60 - 1, CautionMinutes * 60}}

\* minutes after the session open at which the table holds a candle
RowOffsets == {0, 5, 15, 30}

RowShapes ==
    {c \in [high : 1..MaxOrbPrice, low : 1..MaxOrbPrice] : c.low <= c.high}

RECURSIVE Ascending(_)
Ascending(T) ==
    IF T = {} THEN << >>
    ELSE LET m == CHOOSE x \in T : \A y \in T : x <= y
         IN  <<m>> \o Ascending(T \ {m})

\* ORDER BY timestamp ASC over distinct timestamps; offsets from the open
OffsetRows ==
    UNION {
        LET ts == Ascending(T) IN
        {[k \in 1..Len(ts) |-> [offset |-> ts[k], high |-> f[k].high, low |-> f[k].low]] :
            f \in [1..Len(ts) -> RowShapes]}
        : T \in {U \in SUBSET RowOffsets : Cardinality(U) <= MaxRows} }

\* the rows the query of lines 149-151 returns: timestamp >= session open
\* (the table holds no candle that opens after the present instant)
RowsSince(open, rs) ==
    [k \in 1..Len(rs) |->
        [timestamp |-> Naive(open + rs[k].offset * 60),
         high |-> rs[k].high, low |-> rs[k].low]]

----------------------------------------------------------------------------
(* State machine: the inputs are chosen initially, one call is made. *)

Blank ==
    /\ pc = "init"
    /\ window = None /\ lookback = None
    /\ status = None /\ messages = None /\ swing = None /\ fvgs = None
    /\ examined = None /\ report = None /\ raised = None /\ results = None

InitClock ==
    /\ Blank
    /\ now_utc \in DayInstants
    /\ db_rows = << >> /\ candles = << >> /\ fetched = << >>

InitOrb ==
    /\ Blank
    /\ now_utc \in OrbInstants
    /\ LET st == GetActiveOrRecentSession(now_utc) IN
       IF st.session_open_dt = None THEN db_rows = << >>
       ELSE \E rs \in OffsetRows :
               /\ db_rows = RowsSince(st.session_open_dt[1], rs)
               /\ \A k \in 1..Len(db_rows) : db_rows[k].timestamp.wall <= now_utc
    /\ candles = << >> /\ fetched = << >>

InitDetect ==
    /\ Blank
    /\ candles \in CandleSeqs
    /\ now_utc = Midnight /\ db_rows = << >> /\ fetched = << >>

InitMtf ==
    /\ Blank
    /\ fetched \in [1..Len(Timeframes) -> FetchSeqs]
    /\ now_utc = Midnight /\ db_rows = << >> /\ candles = << >>

CallGetActiveOrRecentSession ==
    /\ pc = "init"
    /\ pc' = "get_active_or_recent_session"
    /\ status' = GetActiveOrRecentSession(now_utc)
    /\ UNCHANGED <<now_utc, db_rows, candles, fetched, window, lookback,
                   messages, swing, fvgs, examined, report, raised, results>>

CallRunSessionOrb ==
    /\ pc = "init"
    /\ pc' = "run_session_orb"
    /\ status' = GetActiveOrRecentSession(now_utc)
    /\ messages' = RunSessionOrb(now_utc, db_rows)
    /\ UNCHANGED <<now_utc, db_rows, candles, fetched, window, lookback,
                   swing, fvgs, examined, report, raised, results>>

CallFindLastSwingHighLow ==
    /\ pc = "init"
    /\ pc' = "find_last_swing_high_low"
    /\ \E w \in 1..MaxWindow :
          /\ window' = Some(w)
          /\ swing' = FindLastSwingHighLow(candles, w)
    /\ UNCHANGED <<now_utc, db_rows, candles, fetched, lookback, status,
                   messages, fvgs, examined, report, raised, results>>

CallDetectAllFvgs ==
    /\ pc = "init"
    /\ pc' = "detect_all_fvgs"
    /\ \E lb \in 0..MaxLookback :
          /\ lookback' = Some(lb)
          /\ fvgs' = DetectAllFvgs(candles, lb)
          /\ examined' = FvgRange(Len(candles), lb)
    /\ UNCHANGED <<now_utc, db_rows, candles, fetched, window, status,
                   messages, swing, report, raised, results>>

CallFindSrLiquidityZones ==
    /\ pc = "init"
    /\ pc' = "find_sr_liquidity_zones"
    /\ \E lb \in 0..MaxLookback, w \in 1..MaxWindow :
          LET r == FindSrLiquidityZones(candles, lb, w) IN
          /\ lookback' = Some(lb)
          /\ window' = Some(w)
          /\ report' = r.value
          /\ raised' = r.raised
    /\ UNCHANGED <<now_utc, db_rows, candles, fetched, status,
                   messages, swing, fvgs, examined, results>>

CallGetAllTfSrLiquidity ==
    /\ pc = "init"
    /\ pc' = "get_all_tf_sr_liquidity"
    /\ LET r == GetAllTfSrLiquidity(fetched) IN
          /\ results' = r.value
          /\ raised' = r.raised
    /\ UNCHANGED <<now_utc, db_rows, candles, fetched, window, lookback, status,
                   messages, swing, fvgs, examined, report>>

NextClock == CallGetActiveOrRecentSession \/ CallRunSessionOrb

NextOrb == CallRunSessionOrb

NextDetect ==
    CallFindLastSwingHighLow \/ CallDetectAllFvgs \/ CallFindSrLiquidityZones

NextMtf == CallGetAllTfSrLiquidity

SpecClock == InitClock /\ [][NextClock]_vars

SpecOrb == InitOrb /\ [][NextOrb]_vars

SpecDetect == InitDetect /\ [][NextDetect]_vars

SpecMtf == InitMtf /\ [][NextMtf]_vars

----------------------------------------------------------------------------
(* Properties of the session clock (SpecClock) *)

ClockRan == pc \in {"get_active_or_recent_session", "run_session_orb"}

KindsOf(msgs) == [k \in 1..Len(msgs) |-> msgs[k][1]]

HasKind(msgs, kind) == \E k \in 1..Len(msgs) : msgs[k][1] = kind

\* C1: at exactly the declared start time-of-day of Tokyo, London or
\* New York, get_active_or_recent_session returns that session's name with
\* minutes_since_open = 0.
C1_StartIsJustOpened ==
    pc = "get_active_or_recent_session" =>
        \A k \in 1..Len(Sessions) :
            TimeOfDay(now_utc) = TimeValue(Sessions[k].start) =>
                /\ status.session = Some(Sessions[k].name)
                /\ status.mins_since_open = Some(0)

\* C10: London is reported only with minutes_since_open >= 60 and New York
\* only with minutes_since_open >= 180; a start_dt rolled back to the previous
\* day never matches, so the reported open is on the date of the queried
\* instant; and the caution line of run_session_orb is only ever emitted for
\* the Tokyo session.
C10_OverlapShadowsOpen ==
    ClockRan =>
        /\ status.session = Some("London") => status.mins_since_open[1] >= 60
        /\ status.session = Some("New York") => status.mins_since_open[1] >= 180
        /\ \A k \in 1..Len(Sessions) :
              TimeOfDay(now_utc) < TimeValue(Sessions[k].start) =>
                  ~InSession(now_utc, Sessions[k])
        /\ status.session_open_dt # None =>
              DateOf(status.session_open_dt[1]) = DateOf(now_utc)
        /\ pc = "run_session_orb" =>
              \A k \in 1..Len(messages) :
                  messages[k][1] = "caution" =>
                      /\ messages[k][3] = "Tokyo"
                      /\ status.session = Some("Tokyo")

\* C10 witness: run_session_orb emitted the caution line, for Tokyo
C10_Witness ==
    /\ pc = "run_session_orb"
    /\ HasKind(messages, "caution")
    /\ status.session = Some("Tokyo")
    /\ status.mins_since_open[1] > 0

----------------------------------------------------------------------------
(* Properties of the opening-range breakout report (SpecOrb) *)

SetMax(S) == CHOOSE x \in S : \A y \in S : y <= x

SetMin(S) == CHOOSE x \in S : \A y \in S : x <= y

OrbRan == pc = "run_session_orb"

SessionOpen == status.session_open_dt # None

OrbEnd == status.session_open_dt[1] + OrbMinutes * 60

OrbIdx == {k \in 1..Len(db_rows) : db_rows[k].timestamp.wall < OrbEnd}

AfterIdx == {k \in 1..Len(db_rows) : db_rows[k].timestamp.wall >= OrbEnd}

OrbHigh == SetMax({db_rows[k].high : k \in OrbIdx})

OrbLow == SetMin({db_rows[k].low : k \in OrbIdx})

FirstAfter == db_rows[SetMin(AfterIdx)]

UpLines == {k \in 1..Len(messages) : messages[k][1] = "breakout_up"}

DownLines == {k \in 1..Len(messages) : messages[k][1] = "breakout_down"}

\* C6: the breakout decision rests on the first candle at or after orb_end
\* alone: high > orb_high gives one upward line and no downward line, else
\* low < orb_low gives one downward line, else none; never more than one
\* breakout line, and none from a later candle.
C6_FirstCandleDecides ==
    (OrbRan /\ SessionOpen) =>
        /\ Cardinality(UpLines) + Cardinality(DownLines) <= 1
        /\ (OrbIdx = {} \/ AfterIdx = {}) => (UpLines = {} /\ DownLines = {})
        /\ (OrbIdx # {} /\ AfterIdx # {}) =>
              IF FirstAfter.high > OrbHigh
              THEN /\ DownLines = {}
                   /\ \E k \in UpLines : messages[k][2] = FirstAfter.timestamp
              ELSE IF FirstAfter.low < OrbLow
              THEN /\ UpLines = {}
                   /\ \E k \in DownLines : messages[k][2] = FirstAfter.timestamp
              ELSE UpLines = {} /\ DownLines = {}

\* C6 witness: the first candle after the window crosses both ends of the
\* range, a later candle follows it, and the one line emitted is upward
C6_Witness ==
    /\ OrbRan /\ SessionOpen
    /\ OrbIdx # {} /\ Cardinality(AfterIdx) >= 2
    /\ FirstAfter.high > OrbHigh /\ FirstAfter.low < OrbLow
    /\ UpLines # {}

\* C9: the session line is first; the caution line is second when present,
\* and present exactly when a session is active with minutes_since_open < 30;
\* a breakout line only follows an ORB High/Low line; with no session the
\* output is the session line alone; with no candle in the ORB window the
\* output ends with a no-candles line and has no ORB or breakout line.
C9_LineOrder ==
    OrbRan =>
        LET kinds == KindsOf(messages)
            Pos(kind) == {k \in 1..Len(kinds) : kinds[k] = kind}
        IN  /\ Pos("session") = {1}
            /\ Pos("caution") =
                  (IF SessionOpen /\ status.mins_since_open[1] < 30 THEN {2} ELSE {})
            /\ \A b \in Pos("breakout_up") \cup Pos("breakout_down") :
                  \E o \in Pos("orb") : o < b
            /\ \A o \in Pos("orb"), b \in Pos("breakout_up") \cup Pos("breakout_down") :
                  o < b
            /\ ~SessionOpen => Len(messages) = 1
            /\ (SessionOpen /\ OrbIdx = {}) =>
                  /\ kinds[Len(kinds)] \in {"no_candles", "no_orb_candles"}
                  /\ Pos("orb") = {}
                  /\ Pos("breakout_up") \cup Pos("breakout_down") = {}

\* C9 witness: all four kinds of line in one report
C9_Witness ==
    /\ OrbRan
    /\ KindsOf(messages) = <<"session", "caution", "orb", "breakout_down">>

----------------------------------------------------------------------------
(* Properties of the detectors (SpecDetect) *)

SwingRan == pc = "find_last_swing_high_low"

FvgRan == pc = "detect_all_fvgs"

ZonesRan == pc = "find_sr_liquidity_zones"

\* high and low of the candle at 0-based index i of the window
HighAt(i) == candles[i + 1].high

LowAt(i) == candles[i + 1].low

\* the indices with a full neighbourhood whose high strictly exceeds every
\* other high of the neighbourhood
SwingIdx(w) ==
    {i \in w..(Len(candles) - w - 1) :
        \A j \in (i - w)..(i + w) : j # i => HighAt(i) > HighAt(j)}

DownTo(hi, lo) == [k \in 1..Max(0, hi - lo + 1) |-> hi - (k - 1)]

GapsOrdered ==
    \A a, b \in 1..Len(fvgs) : a < b => fvgs[a].center >= fvgs[b].center

\* every imbalance of the triples centered in idx is in fvgs, and no other
ReportsExactly(idx) ==
    /\ \A i \in idx :
          /\ HighAt(i - 1) < LowAt(i + 1) <=>
                \E g \in 1..Len(fvgs) : fvgs[g].center = i /\ fvgs[g].type = "bullish"
          /\ LowAt(i - 1) > HighAt(i + 1) <=>
                \E g \in 1..Len(fvgs) : fvgs[g].center = i /\ fvgs[g].type = "bearish"
    /\ \A g \in 1..Len(fvgs) : fvgs[g].center \in idx

\* C3 as stated: the loop examines every center index from n-2 down to
\* max(0, n-lookback-1), that end included, and reports the imbalances of
\* those triples most recent first.
C3_Original ==
    FvgRan =>
        LET n == Len(candles)
            lo == Max(0, n - lookback[1] - 1)
        IN  /\ examined = DownTo(n - 2, lo)
            /\ ReportsExactly({i \in Max(1, lo)..(n - 2) : TRUE})
            /\ GapsOrdered

\* C3 amended: the loop examines every center index from n-2 down to
\* max(0, n-lookback-1) + 1, the end max(0, n-lookback-1) itself excluded,
\* and reports the imbalances of exactly those triples most recent first.
C3_Amended ==
    FvgRan =>
        LET n == Len(candles)
            lo == Max(0, n - lookback[1] - 1) + 1
        IN  /\ examined = DownTo(n - 2, lo)
            /\ ReportsExactly(lo..(n - 2))
            /\ GapsOrdered

\* C3 witness: two triples examined, each reports a gap, the more recent
\* one first
C3_Witness ==
    /\ FvgRan
    /\ Len(examined) >= 2
    /\ Len(fvgs) >= 2
    /\ fvgs[1].center > fvgs[2].center

\* C4: no center index yields both a bullish and a bearish gap; the two
\* tests are mutually exclusive on every triple examined.
C4_NeverBothKinds ==
    FvgRan =>
        /\ \A a, b \in 1..Len(fvgs) :
              fvgs[a].center = fvgs[b].center => fvgs[a].type = fvgs[b].type
        /\ \A k \in 1..Len(examined) :
              ~(/\ HighAt(examined[k] - 1) < LowAt(examined[k] + 1)
                /\ LowAt(examined[k] - 1) > HighAt(examined[k] + 1))

\* C4 witness: a bullish and a bearish gap in one result, at different centers
C4_Witness ==
    /\ FvgRan
    /\ \E a, b \in 1..Len(fvgs) :
          /\ fvgs[a].type = "bullish" /\ fvgs[b].type = "bearish"
          /\ fvgs[a].center # fvgs[b].center

\* the window with the candle at 0-based index i replaced by c
WithCandle(i, c) == [candles EXCEPT ![i + 1] = c]

\* C5: every gap has top > bottom, with (bottom, top) = (high[i-1], low[i+1])
\* when bullish and (high[i+1], low[i-1]) when bearish, i its center; the
\* gaps of a triple are the same whatever the middle candle is.
C5_GapBounds ==
    FvgRan =>
        /\ \A g \in 1..Len(fvgs) :
              LET i == fvgs[g].center IN
              /\ fvgs[g].top > fvgs[g].bottom
              /\ fvgs[g].type \in {"bullish", "bearish"}
              /\ fvgs[g].type = "bullish" =>
                    fvgs[g].bottom = HighAt(i - 1) /\ fvgs[g].top = LowAt(i + 1)
              /\ fvgs[g].type = "bearish" =>
                    fvgs[g].bottom = HighAt(i + 1) /\ fvgs[g].top = LowAt(i - 1)
        /\ \A k \in 1..Len(examined), c \in CandleSet :
              LET i == examined[k]
                  other == DetectAllFvgs(WithCandle(i, c), lookback[1])
              IN  SelectSeq(other, LAMBDA g : g.center = i)
                     = SelectSeq(fvgs, LAMBDA g : g.center = i)

\* C5 witness: a bearish gap whose middle candle spans the whole gap
C5_Witness ==
    /\ FvgRan
    /\ \E g \in 1..Len(fvgs) :
          /\ fvgs[g].type = "bearish"
          /\ LowAt(fvgs[g].center) <= fvgs[g].bottom
          /\ HighAt(fvgs[g].center) >= fvgs[g].top

\* C8: on an empty or too-short window find_last_swing_high_low returns
\* (None, None), detect_all_fvgs returns the empty list, and
\* find_sr_liquidity_zones on an empty slice gives no report and does not raise.
C8_NoResultSentinels ==
    /\ (SwingRan /\ Len(candles) < 2 * window[1] + 1) => swing = <<None, None>>
    /\ (FvgRan /\ Len(candles) < 3) => fvgs = << >>
    /\ (ZonesRan /\ candles = << >>) => (report = None /\ raised = None)

----------------------------------------------------------------------------
(* Properties of the multi-timeframe aggregation (SpecMtf) *)

MtfRan == pc = "get_all_tf_sr_liquidity"

TfPos(tf) == CHOOSE k \in 1..Len(Timeframes) : Timeframes[k] = tf

\* C7: whatever fetches are empty, get_all_tf_sr_liquidity does not raise and
\* its keys are exactly the timeframes with a non-empty fetch, in the order
\* 4h, 1h, 15m.
C7_PartialCoverage ==
    MtfRan =>
        /\ raised = None
        /\ results # None
        /\ LET res == results[1] IN
           /\ {res[k][1] : k \in 1..Len(res)} =
                 {Timeframes[k] : k \in {j \in 1..Len(Timeframes) : fetched[j] # << >>}}
           /\ \A a, b \in 1..Len(res) : a < b => TfPos(res[a][1]) < TfPos(res[b][1])

\* C7 witness: the first fetch is empty and the two later reports are there
C7_Witness ==
    /\ MtfRan
    /\ fetched[1] = << >> /\ fetched[2] # << >> /\ fetched[3] # << >>
    /\ raised = None
    /\ Len(results[1]) = 2

====
